---- MODULE Spec2Model ----
(***************************************************************************)
(* Model of envy.py: the launcher's main thread, the worker thread that    *)
(* runs run_application, and the resolver handle_missing_dependencies.     *)
(* Blocking calls (target process, pip, sleep) are split into the step     *)
(* that starts them and the step in which they return.                     *)
(***************************************************************************)
EXTENDS Integers, Sequences, FiniteSets, TLC

VARIABLES
    mainPc,           \* main thread: the statement of main() it is about to run
    exitCode,         \* exit status of the process, -1 while it is alive
    args,             \* known_args: command mode, -a given, -r given, app file exists
    venv_lock,        \* main: venv_lock is held
    venvExists,       \* venv_path.exists()
    ensured,          \* a call of ensure_venv has completed in this invocation
    wpc,              \* worker thread position in run_application
    attempt,          \* run_application: attempt
    outcome,          \* terminal outcome of the retry loop, "none" before
    returncode,       \* handle_missing_dependencies: result.returncode, -1 if none
    missing_modules,  \* handle_missing_dependencies: missing_modules
    idx,              \* position of the running for loop in its list
    tier,             \* which for loop is running: "primary", "secondary", "fallback"
    installLog,       \* pip install calls started by the current resolver call
    resolved,         \* value returned by the last resolver call: "none", "true", "false"
    localPy,          \* names X such that X.py exists beside the target
    localPkg,         \* names X such that X/__init__.py exists beside the target
    pythonOK,         \* the environment's python executable can be started
    pipOK,            \* the environment's pip executable can be started
    executions,       \* processes of the target program started so far
    launches,         \* attempts to start the target program so far
    pipFailed,        \* some pip install of the resolver exited with non-zero status
    error_message,    \* find_missing_modules: its argument (ClassifySpec only)
    delays,           \* time.sleep calls started so far
    sawZero           \* some process of the target program exited with status 0

vars == <<mainPc, exitCode, args, venv_lock, venvExists, ensured, wpc, attempt,
          outcome, returncode, missing_modules, idx, tier, installLog, resolved,
          localPy, localPkg, pythonOK, pipOK, executions, launches, pipFailed,
          error_message, delays, sawZero>>

\* ------------------------------------------------------------------ bounds
MaxTextLen == 2

\* --------------------------------------------------------------- constants
max_attempts == 12

MODULE_PACKAGE_MAP ==
    ("pil" :> "Pillow") @@ ("qtawesome" :> "qtawesome") @@ ("qt_material" :> "qt-material")

SECONDARY_MODULES == {"qtawesome", "qt_material"}

\* ------------------------------------------------------------------ inputs
\* Identifiers a diagnostic text may quote.
Ids == {"requests", "PIL", "QtAwesome", "helper"}

\* A diagnostic text is a sequence of the fragments the classifier reacts to:
\*   nomod  : No module named 'id'
\*   noname : ImportError: cannot import name 'id'
\*   qtsig  : qtpy.QtBindingsNotFoundError: No Qt bindings could be found
\*   other  : a line that none of the three matches
Fragments ==
    [kind : {"nomod", "noname"}, id : Ids]
        \cup {[kind |-> "qtsig", id |-> ""], [kind |-> "other", id |-> ""]}

Texts == UNION {[1..n -> Fragments] : n \in 0..MaxTextLen}

\* Command lines: the mutually exclusive mode, whether -a and -r are given and
\* whether the file named by -a exists.
Modes == {"log", "delete", "recreate", "update", "pip", "unpip", "none"}
Args == [mode : Modes, hasApp : BOOLEAN, hasReq : BOOLEAN, appExists : BOOLEAN]

\* known_args is not read after the worker thread has been created.
NoArgs == [mode |-> "-", hasApp |-> TRUE, hasReq |-> FALSE, appExists |-> TRUE]

\* Files that may exist beside the target program.
PyCandidates == {"helper", "PyQt5"}
PkgCandidates == {"QtAwesome"}

\* ----------------------------------------------------------- pure functions
\* str.lower() on the identifiers of the model.
Lower(s) ==
    CASE s = "PIL" -> "pil"
      [] s = "QtAwesome" -> "qtawesome"
      [] s = "PyQt5" -> "pyqt5"
      [] OTHER -> s

Captures(text, k) ==
    LET m == SelectSeq(text, LAMBDA f : f.kind = k)
    IN  [i \in 1..Len(m) |-> m[i].id]

HasQtSignature(text) == \E i \in 1..Len(text) : text[i].kind = "qtsig"

find_missing_modules_textorder(text) ==
    LET m == SelectSeq(text, LAMBDA f : f.kind \in {"nomod", "noname"})
    IN  [i \in 1..Len(m) |-> m[i].id]
            \o (IF HasQtSignature(text) THEN <<"PyQt5">> ELSE <<>>)

find_missing_modules(text) ==
    Captures(text, "nomod") \o Captures(text, "noname")
        \o (IF HasQtSignature(text) THEN <<"PyQt5">> ELSE <<>>)

is_local_module_pyonly(module) == module \in localPy

is_local_module(module) == module \in localPy \/ module \in localPkg

package_nolower(module) ==
    IF module \in DOMAIN MODULE_PACKAGE_MAP THEN MODULE_PACKAGE_MAP[module] ELSE module

package(module) ==
    IF Lower(module) \in DOMAIN MODULE_PACKAGE_MAP
    THEN MODULE_PACKAGE_MAP[Lower(module)]
    ELSE module

primary_modules_nolower(missing) ==
    SelectSeq(missing, LAMBDA m : m \notin SECONDARY_MODULES)

primary_modules(missing) ==
    SelectSeq(missing, LAMBDA m : Lower(m) \notin SECONDARY_MODULES)

secondary_modules_all(missing) == missing

secondary_modules_detected(missing) ==
    SelectSeq(missing, LAMBDA m : Lower(m) \in SECONDARY_MODULES)

\* -------------------------------------------------------------------- init
Init ==
    /\ mainPc = "start"
    /\ exitCode = -1
    /\ args \in {a \in Args : a.appExists => a.hasApp}
    /\ venv_lock = FALSE
    /\ venvExists \in BOOLEAN
    /\ ensured = FALSE
    /\ wpc = "idle"
    /\ attempt = 1
    /\ outcome = "none"
    /\ returncode = -1
    /\ missing_modules = <<>>
    /\ idx = 1
    /\ tier = "primary"
    /\ installLog = <<>>
    /\ resolved = "none"
    /\ localPy \in SUBSET PyCandidates
    /\ localPkg \in SUBSET PkgCandidates
    /\ pythonOK \in BOOLEAN
    /\ pipOK \in BOOLEAN
    /\ executions = 0
    /\ launches = 0
    /\ pipFailed = FALSE
    /\ error_message = <<>>
    /\ delays = 0
    /\ sawZero = FALSE

\* ------------------------------------------------------- control fragments
\* The two history counters saturate above every value a run can produce
\* (at most 2 * max_attempts - 1 launches and max_attempts - 1 delays).
ExecCap == 2 * max_attempts
DelayCap == max_attempts
Bump(n, cap) == IF n < cap THEN n + 1 ELSE n

mainVars == <<mainPc, exitCode, args, venv_lock, venvExists, ensured>>
fsVars == <<localPy, localPkg, error_message>>
toolVars == <<pythonOK, pipOK>>
workerVars == <<wpc, attempt, outcome, returncode, missing_modules, idx, tier,
                installLog, resolved, executions, launches, pipFailed, delays, sawZero>>
callVars == <<returncode, missing_modules>>

Goto(p) == wpc' = p /\ UNCHANGED <<outcome, resolved, delays>>

ThreadExit_continues(o) == outcome' = o /\ wpc' = "loop" /\ UNCHANGED <<resolved, delays>>

\* sys.exit(1) raised in the worker thread: SystemExit unwinds run_application
\* and ends that thread; the status of the process is not touched.
ThreadExit(o) == outcome' = o /\ wpc' = "done" /\ UNCHANGED <<resolved, delays>>

ReturnTrue_nodelay ==
    /\ resolved' = "true"
    /\ wpc' = "sleeping"
    /\ delays' = delays
    /\ outcome' = outcome

\* handle_missing_dependencies returns True; run_application logs and sleeps.
ReturnTrue ==
    /\ resolved' = "true"
    /\ wpc' = "sleeping"
    /\ delays' = Bump(delays, DelayCap)
    /\ outcome' = outcome

ReturnFalse_retry ==
    /\ resolved' = "false"
    /\ wpc' = "sleeping"
    /\ delays' = Bump(delays, DelayCap)
    /\ outcome' = outcome

\* handle_missing_dependencies returns False; run_application calls sys.exit(1).
ReturnFalse ==
    /\ resolved' = "false"
    /\ outcome' = "Unresolved"
    /\ wpc' = "done"
    /\ delays' = delays

\* install_single_dependency(venv_path, pkg) is called for module; pip either
\* starts, or cannot be started and the exception is caught by the resolver.
CallInstall(module, pkg) ==
    /\ installLog' = Append(installLog, [module |-> module, package |-> pkg])
    /\ IF pipOK THEN Goto("installing") ELSE ReturnFalse

\* ----------------------------------------------------------- main thread
\* sys.exit(code) in the main thread, or main() returning (code 0); a with
\* block that is left releases venv_lock.
MainExit(code) == mainPc' = "exited" /\ exitCode' = code /\ venv_lock' = FALSE

\* ensure_venv(venv_path) followed by the statement at next; creating the
\* environment can fail, which exits with status 1.
ensure_venv(next) ==
    IF venvExists
    THEN /\ mainPc' = next
         /\ ensured' = TRUE
         /\ UNCHANGED <<exitCode, venv_lock, venvExists, toolVars>>
    ELSE \E ok \in BOOLEAN :
         IF ok
         THEN /\ mainPc' = next
              /\ ensured' = TRUE
              /\ venvExists' = TRUE
              /\ pythonOK' = TRUE
              /\ pipOK' = TRUE
              /\ UNCHANGED <<exitCode, venv_lock>>
         ELSE MainExit(1) /\ UNCHANGED <<ensured, venvExists, toolVars>>

\* A pip command run by main that exits the process with status 1 on failure.
MainOp(next) ==
    \E ok \in BOOLEAN :
        IF ok
        THEN mainPc' = next /\ UNCHANGED <<exitCode, venv_lock>>
        ELSE MainExit(1)

\* The start of main: --log exits with 0; otherwise check_pipreqs_installed
\* exits with 1 when pipx is missing or fails (pipx names that outcome), then
\* a missing target path is fatal unless the command is delete or unpip.
ParseArgs ==
    /\ mainPc = "start"
    /\ IF args.mode = "log"
       THEN MainExit(0)
       ELSE \E pipx \in BOOLEAN :
            IF ~pipx
            THEN MainExit(1)
            ELSE IF args.hasApp /\ ~args.appExists /\ args.mode \notin {"delete", "unpip"}
                 THEN MainExit(1)
                 ELSE mainPc' = "locked" /\ venv_lock' = TRUE /\ exitCode' = exitCode
    /\ UNCHANGED <<args, venvExists, ensured, workerVars, fsVars, toolVars>>

DeleteVenv ==
    /\ mainPc = "locked"
    /\ args.mode = "delete"
    /\ \E ok \in {TRUE} \cup {~venvExists} :
          IF ok
          THEN venvExists' = FALSE /\ MainExit(0)
          ELSE venvExists' = venvExists /\ MainExit(1)
    /\ UNCHANGED <<args, ensured, workerVars, fsVars, toolVars>>

RecreateVenv ==
    /\ mainPc = "locked"
    /\ args.mode = "recreate"
    /\ \E ok \in BOOLEAN :
          IF ok
          THEN /\ venvExists' = TRUE
               /\ pythonOK' = TRUE
               /\ pipOK' = TRUE
               /\ ensured' = TRUE
               /\ mainPc' = (IF args.hasApp THEN "recreateDeps" ELSE "unlock")
               /\ UNCHANGED <<exitCode, venv_lock>>
          ELSE /\ venvExists' \in {venvExists, FALSE}
               /\ MainExit(1)
               /\ UNCHANGED <<ensured, toolVars>>
    /\ UNCHANGED <<args, workerVars, fsVars>>

RecreateDeps ==
    /\ mainPc = "recreateDeps"
    /\ MainOp("unlock")
    /\ UNCHANGED <<args, venvExists, ensured, workerVars, fsVars, toolVars>>

EnsureLocked_skips ==
    /\ mainPc = "locked"
    /\ args.mode \in {"update", "pip", "unpip", "none"}
    /\ mainPc' = (IF args.mode = "none" /\ ~args.hasReq THEN "unlock" ELSE "op")
    /\ UNCHANGED <<exitCode, venv_lock, venvExists, ensured, toolVars, args,
                   workerVars, fsVars>>

EnsureLocked ==
    /\ mainPc = "locked"
    /\ args.mode \in {"update", "pip", "unpip", "none"}
    /\ ensure_venv(IF args.mode = "none" /\ ~args.hasReq THEN "unlock" ELSE "op")
    /\ UNCHANGED <<args, workerVars, fsVars>>

UpdateAll ==
    /\ mainPc = "op"
    /\ args.mode = "update"
    /\ mainPc' = "unlock"
    /\ UNCHANGED <<exitCode, args, venv_lock, venvExists, ensured, workerVars, fsVars, toolVars>>

PipInstall ==
    /\ mainPc = "op"
    /\ args.mode = "pip"
    /\ MainOp("unlock")
    /\ UNCHANGED <<args, venvExists, ensured, workerVars, fsVars, toolVars>>

Unpip ==
    /\ mainPc = "op"
    /\ args.mode = "unpip"
    /\ MainOp("unlock")
    /\ UNCHANGED <<args, venvExists, ensured, workerVars, fsVars, toolVars>>

InstallReqs ==
    /\ mainPc = "op"
    /\ args.mode = "none"
    /\ MainOp("unlock")
    /\ UNCHANGED <<args, venvExists, ensured, workerVars, fsVars, toolVars>>

Unlock_runsapp ==
    /\ mainPc = "unlock"
    /\ IF args.hasApp
       THEN mainPc' = "ensureApp" /\ venv_lock' = FALSE /\ exitCode' = exitCode
       ELSE MainExit(0)
    /\ UNCHANGED <<args, venvExists, ensured, workerVars, fsVars, toolVars>>

Unlock ==
    /\ mainPc = "unlock"
    /\ IF args.hasApp /\ args.mode \notin {"delete", "unpip"}
       THEN mainPc' = "ensureApp" /\ venv_lock' = FALSE /\ exitCode' = exitCode
       ELSE MainExit(0)
    /\ UNCHANGED <<args, venvExists, ensured, workerVars, fsVars, toolVars>>

EnsureApp_spawns ==
    /\ mainPc = "ensureApp"
    /\ ensure_venv(IF args.hasReq THEN "reqsApp" ELSE "spawn")
    /\ wpc' = "loop"
    /\ UNCHANGED <<args, attempt, outcome, returncode, missing_modules, idx, tier,
                   installLog, resolved, executions, launches, pipFailed, delays,
                   sawZero, fsVars>>

EnsureApp ==
    /\ mainPc = "ensureApp"
    /\ ensure_venv(IF args.hasReq THEN "reqsApp" ELSE "spawn")
    /\ UNCHANGED <<args, workerVars, fsVars>>

InstallReqsApp ==
    /\ mainPc = "reqsApp"
    /\ MainOp("spawn")
    /\ UNCHANGED <<args, venvExists, ensured, workerVars, fsVars, toolVars>>

StartThread ==
    /\ mainPc = "spawn"
    /\ mainPc' = "joining"
    /\ args' = NoArgs
    /\ wpc' = "loop"
    /\ UNCHANGED <<exitCode, venv_lock, venvExists, ensured, attempt, outcome, callVars,
                   idx, tier, installLog, resolved, fsVars, toolVars, executions,
                   launches, pipFailed, delays, sawZero>>

Join ==
    /\ mainPc = "joining"
    /\ wpc = "done"
    /\ MainExit(0)
    /\ UNCHANGED <<args, venvExists, ensured, workerVars, fsVars, toolVars>>

\* KeyboardInterrupt is raised in the main thread, which is blocked in join();
\* the handler calls sys.exit(0).  What happens to the worker thread, which is
\* not a daemon thread, depends on the interpreter: either the interpreter
\* waits for it at shutdown and the loop runs on, or the interrupted join() has
\* marked the thread as stopped (CPython 3.9.8 to 3.12, bpo-45274) and the
\* process exits at once, which ends the worker thread wherever it is.
Interrupt ==
    /\ mainPc = "joining"
    /\ wpc # "done"
    /\ \E waits \in BOOLEAN :
          IF waits
          THEN /\ mainPc' = "interrupted"
               /\ UNCHANGED <<exitCode, venv_lock, wpc, outcome>>
          ELSE /\ MainExit(0)
               /\ wpc' = "done"
               /\ outcome' = "Interrupted"
    /\ UNCHANGED <<args, venvExists, ensured, attempt, callVars, idx, tier, installLog,
                   resolved, executions, launches, pipFailed, delays, sawZero,
                   fsVars, toolVars>>

Shutdown ==
    /\ mainPc = "interrupted"
    /\ wpc = "done"
    /\ MainExit(0)
    /\ UNCHANGED <<args, venvExists, ensured, workerVars, fsVars, toolVars>>

\* --------------------------------------------------------- worker thread
RunApp_twice ==
    /\ wpc = "loop"
    /\ IF attempt <= max_attempts
       THEN /\ launches' = Bump(launches, ExecCap)
            /\ IF pythonOK
               THEN Goto("running") /\ executions' = Bump(Bump(executions, ExecCap), ExecCap)
               ELSE Goto("failed") /\ executions' = executions
       ELSE ThreadExit("Exhausted") /\ UNCHANGED <<executions, launches>>
    /\ UNCHANGED <<pipFailed, mainVars, attempt, callVars, idx, tier, installLog, fsVars, toolVars, sawZero>>

RunApp ==
    /\ wpc = "loop"
    /\ IF attempt <= max_attempts
       THEN /\ launches' = Bump(launches, ExecCap)
            /\ IF pythonOK
               THEN Goto("running") /\ executions' = Bump(executions, ExecCap)
               ELSE Goto("failed") /\ executions' = executions
       ELSE ThreadExit("Exhausted") /\ UNCHANGED <<executions, launches>>
    /\ UNCHANGED <<pipFailed, mainVars, attempt, callVars, idx, tier, installLog, fsVars, toolVars, sawZero>>

AppExits ==
    /\ wpc = "running"
    /\ \E code \in {0, 1} :
          IF code = 0
          THEN /\ sawZero' = TRUE
               /\ outcome' = "Succeeded"
               /\ wpc' = "done"
               /\ UNCHANGED <<resolved, delays>>
          ELSE Goto("failed") /\ sawZero' = sawZero
    /\ UNCHANGED <<pipFailed, mainVars, attempt, callVars, idx, tier, installLog, fsVars, toolVars, executions, launches>>

Resolve_offbyone ==
    /\ wpc = "failed"
    /\ IF attempt <= max_attempts
       THEN /\ returncode' = -1
            /\ missing_modules' = <<>>
            /\ idx' = 1
            /\ tier' = "primary"
            /\ installLog' = <<>>
            /\ attempt' = attempt
            /\ launches' = Bump(launches, ExecCap)
            /\ IF pythonOK
               THEN /\ wpc' = "diagnosing"
                    /\ resolved' = "none"
                    /\ executions' = Bump(executions, ExecCap)
                    /\ UNCHANGED <<outcome, delays>>
               ELSE ReturnFalse /\ executions' = executions
       ELSE /\ attempt' = attempt + 1
            /\ Goto("loop")
            /\ UNCHANGED <<callVars, idx, tier, installLog, executions, launches>>
    /\ UNCHANGED <<pipFailed, mainVars, fsVars, toolVars, sawZero>>

Resolve ==
    /\ wpc = "failed"
    /\ IF attempt < max_attempts
       THEN /\ returncode' = -1
            /\ missing_modules' = <<>>
            /\ idx' = 1
            /\ tier' = "primary"
            /\ installLog' = <<>>
            /\ attempt' = attempt
            /\ launches' = Bump(launches, ExecCap)
            /\ IF pythonOK
               THEN /\ wpc' = "diagnosing"
                    /\ resolved' = "none"
                    /\ executions' = Bump(executions, ExecCap)
                    /\ UNCHANGED <<outcome, delays>>
               ELSE ReturnFalse /\ executions' = executions
       ELSE /\ attempt' = attempt + 1
            /\ Goto("loop")
            /\ UNCHANGED <<callVars, idx, tier, installLog, executions, launches>>
    /\ UNCHANGED <<pipFailed, mainVars, fsVars, toolVars, sawZero>>

DiagExits ==
    /\ wpc = "diagnosing"
    /\ \E code \in {0, 1} :
          IF code = 0
          THEN /\ returncode' = 0
               /\ sawZero' = TRUE
               /\ ReturnFalse
               /\ UNCHANGED <<missing_modules, idx, tier, installLog>>
          ELSE \E text \in Texts :
               /\ returncode' = 1
               /\ missing_modules' = find_missing_modules(text)
               /\ sawZero' = sawZero
               /\ IF find_missing_modules(text) # <<>>
                  THEN Goto("primary") /\ UNCHANGED <<idx, tier, installLog>>
                  ELSE IF HasQtSignature(text)
                       THEN /\ tier' = "fallback"
                            /\ idx' = idx
                            /\ CallInstall("PyQt5", "PyQt5")
                       ELSE ReturnFalse /\ UNCHANGED <<idx, tier, installLog>>
    /\ UNCHANGED <<pipFailed, mainVars, attempt, fsVars, toolVars, executions, launches>>

Reverse(seq) == [i \in 1..Len(seq) |-> seq[Len(seq) + 1 - i]]

PrimaryLoop_reversed ==
    /\ wpc = "primary"
    /\ LET list == Reverse(primary_modules(missing_modules)) IN
       IF idx > Len(list)
       THEN /\ idx' = 1
            /\ tier' = "secondary"
            /\ Goto("secondary")
            /\ installLog' = installLog
       ELSE IF is_local_module(list[idx])
            THEN /\ idx' = idx + 1
                 /\ Goto("primary")
                 /\ UNCHANGED <<tier, installLog>>
            ELSE /\ CallInstall(list[idx], package(list[idx]))
                 /\ UNCHANGED <<idx, tier>>
    /\ UNCHANGED <<pipFailed, mainVars, attempt, callVars, fsVars, toolVars, executions, launches, sawZero>>

PrimaryLoop ==
    /\ wpc = "primary"
    /\ LET list == primary_modules(missing_modules) IN
       IF idx > Len(list)
       THEN /\ idx' = 1
            /\ tier' = "secondary"
            /\ Goto("secondary")
            /\ installLog' = installLog
       ELSE IF is_local_module(list[idx])
            THEN /\ idx' = idx + 1
                 /\ Goto("primary")
                 /\ UNCHANGED <<tier, installLog>>
            ELSE /\ CallInstall(list[idx], package(list[idx]))
                 /\ UNCHANGED <<idx, tier>>
    /\ UNCHANGED <<pipFailed, mainVars, attempt, callVars, fsVars, toolVars, executions, launches, sawZero>>

SecondaryLoop ==
    /\ wpc = "secondary"
    /\ LET list == secondary_modules_detected(missing_modules) IN
       IF idx > Len(list)
       THEN ReturnTrue /\ UNCHANGED <<idx, tier, installLog>>
       ELSE IF is_local_module(list[idx])
            THEN /\ idx' = idx + 1
                 /\ Goto("secondary")
                 /\ UNCHANGED <<tier, installLog>>
            ELSE /\ CallInstall(list[idx], package(list[idx]))
                 /\ UNCHANGED <<idx, tier>>
    /\ UNCHANGED <<pipFailed, mainVars, attempt, callVars, fsVars, toolVars, executions, launches, sawZero>>

PipExits_continue ==
    /\ wpc = "installing"
    /\ \E code \in {0, 1} :
          IF code = 0
          THEN /\ pipFailed' = pipFailed
               /\ IF tier = "fallback"
                  THEN ReturnTrue /\ idx' = idx
                  ELSE Goto(tier) /\ idx' = idx + 1
          ELSE /\ pipFailed' = TRUE
               /\ IF tier = "fallback"
                  THEN ReturnTrue /\ idx' = idx
                  ELSE Goto(tier) /\ idx' = idx + 1
    /\ UNCHANGED <<mainVars, attempt, callVars, tier, installLog, fsVars, toolVars, executions, launches, sawZero>>

PipExits ==
    /\ wpc = "installing"
    /\ \E code \in {0, 1} :
          IF code = 0
          THEN /\ pipFailed' = pipFailed
               /\ IF tier = "fallback"
                  THEN ReturnTrue /\ idx' = idx
                  ELSE Goto(tier) /\ idx' = idx + 1
          ELSE /\ pipFailed' = TRUE
               /\ ThreadExit("InstallFailed")
               /\ idx' = idx
    /\ UNCHANGED <<mainVars, attempt, callVars, tier, installLog, fsVars, toolVars, executions, launches, sawZero>>

SleepReturns_noinc ==
    /\ wpc = "sleeping"
    /\ attempt' = attempt
    /\ wpc' = "loop"
    /\ returncode' = -1
    /\ missing_modules' = <<>>
    /\ idx' = 1
    /\ tier' = "primary"
    /\ installLog' = <<>>
    /\ resolved' = "none"
    /\ UNCHANGED <<pipFailed, mainVars, outcome, delays, fsVars, toolVars, executions, launches, sawZero>>

SleepReturns ==
    /\ wpc = "sleeping"
    /\ attempt' = attempt + 1
    /\ wpc' = "loop"
    /\ returncode' = -1
    /\ missing_modules' = <<>>
    /\ idx' = 1
    /\ tier' = "primary"
    /\ installLog' = <<>>
    /\ resolved' = "none"
    /\ UNCHANGED <<pipFailed, mainVars, outcome, delays, fsVars, toolVars, executions, launches, sawZero>>

Worker ==
    \/ RunApp
    \/ AppExits
    \/ Resolve
    \/ DiagExits
    \/ PrimaryLoop
    \/ SecondaryLoop
    \/ PipExits
    \/ SleepReturns

Main ==
    \/ ParseArgs
    \/ DeleteVenv
    \/ RecreateVenv
    \/ RecreateDeps
    \/ EnsureLocked
    \/ UpdateAll
    \/ PipInstall
    \/ Unpip
    \/ InstallReqs
    \/ Unlock
    \/ EnsureApp
    \/ InstallReqsApp
    \/ StartThread
    \/ Join
    \/ Shutdown

Next ==
    \/ ParseArgs
    \/ DeleteVenv
    \/ RecreateVenv
    \/ RecreateDeps
    \/ EnsureLocked
    \/ UpdateAll
    \/ PipInstall
    \/ Unpip
    \/ InstallReqs
    \/ Unlock
    \/ EnsureApp
    \/ InstallReqsApp
    \/ StartThread
    \/ Join
    \/ Interrupt
    \/ Shutdown
    \/ RunApp
    \/ AppExits
    \/ Resolve
    \/ DiagExits
    \/ PrimaryLoop
    \/ SecondaryLoop
    \/ PipExits
    \/ SleepReturns

Spec == Init /\ [][Next]_vars

\* Every blocking call of the worker returns and the threads are scheduled.
FairSpec == Spec /\ WF_vars(Worker) /\ WF_vars(Main)

\* The classifier as a pure function: any diagnostic text, one call.
ClassifyInit ==
    /\ error_message \in Texts
    /\ returncode = -1
    /\ missing_modules = <<>>
    /\ mainPc = "joining"
    /\ exitCode = -1
    /\ args = NoArgs
    /\ venv_lock = FALSE
    /\ venvExists = TRUE
    /\ ensured = TRUE
    /\ wpc = "diagnosing"
    /\ attempt = 1
    /\ outcome = "none"
    /\ idx = 1
    /\ tier = "primary"
    /\ installLog = <<>>
    /\ resolved = "none"
    /\ localPy = {}
    /\ localPkg = {}
    /\ pythonOK = TRUE
    /\ pipOK = TRUE
    /\ executions = 2
    /\ launches = 2
    /\ pipFailed = FALSE
    /\ delays = 0
    /\ sawZero = FALSE

Classify ==
    /\ returncode = -1
    /\ returncode' = 1
    /\ missing_modules' = find_missing_modules(error_message)
    /\ UNCHANGED <<mainVars, fsVars, toolVars, wpc, attempt, outcome, idx, tier,
                   installLog, resolved, executions, launches, pipFailed, delays, sawZero>>

ClassifySpec == ClassifyInit /\ [][Classify]_vars

TypeOK ==
    /\ mainPc \in {"start", "locked", "recreateDeps", "op", "unlock", "ensureApp",
                  "reqsApp", "spawn", "joining", "interrupted", "exited"}
    /\ args \in Args \cup {NoArgs}
    /\ venv_lock \in BOOLEAN
    /\ launches \in 0..ExecCap
    /\ exitCode \in {-1, 0, 1}
    /\ wpc \in {"idle", "loop", "running", "failed", "diagnosing", "primary",
                "secondary", "installing", "sleeping", "done"}
    /\ attempt \in 1..(max_attempts + 1)
    /\ outcome \in {"none", "Succeeded", "Exhausted", "Unresolved", "InstallFailed",
                   "Interrupted"}
    /\ returncode \in {-1, 0, 1}
    /\ resolved \in {"none", "true", "false"}
    /\ tier \in {"primary", "secondary", "fallback"}

\* ------------------------------------------------------------ properties
Count(seq, x) == Cardinality({i \in 1..Len(seq) : seq[i] = x})

LogModules == [i \in 1..Len(installLog) |-> installLog[i].module]

IsLocal(m) == m \in localPy \cup localPkg

IsSecondary(m) == Lower(m) \in SECONDARY_MODULES

\* The last diagnostic run failed and the classifier extracted nothing.
EmptyClassified == returncode = 1 /\ missing_modules = <<>>

\* C1: the target program is started at most max_attempts times in a run,
\* counting the launch made by the resolver to capture the diagnostic text.
C1_AtMostMaxAttemptsExecutions == executions <= max_attempts

\* C2: once the process has exited, its status is 0 if the loop ended in
\* Succeeded and non-zero if it ended in Exhausted, Unresolved or a failed
\* installation.
C2_ExitStatusReflectsOutcome ==
    mainPc = "exited" =>
        /\ outcome = "Succeeded" => exitCode = 0
        /\ outcome \in {"Exhausted", "Unresolved", "InstallFailed"} => exitCode # 0

\* C3: when every blocking call returns, a started retry loop eventually
\* reaches a terminal outcome, unless an interrupt ends the process first.
C3_LoopTerminates ==
    (wpc = "loop") ~>
        (outcome \in {"Succeeded", "Exhausted", "Unresolved", "InstallFailed", "Interrupted"})

\* C3 witness: every resolution succeeded, the failure recurred, the loop ended.
C3_Witness == outcome = "Exhausted" /\ delays = max_attempts - 1

\* C4: the resolver returns true iff it called the installer at least once in
\* that call; with no identifier, or only local ones, it returns false and the
\* loop ends in Unresolved.
C4_ResolvedIffInstallAttempted ==
    resolved # "none" =>
        /\ (resolved = "true") <=> (Len(installLog) > 0)
        /\ (returncode = 1 /\ \A i \in 1..Len(missing_modules) : IsLocal(missing_modules[i]))
              => (resolved = "false" /\ outcome = "Unresolved")

\* C5: the installer is never called for an identifier that has a local file
\* or a local package directory beside the target.
C5_LocalNeverInstalled ==
    \A i \in 1..Len(installLog) : ~IsLocal(installLog[i].module)

\* C5 witness: a resolver call finished in which a local secondary identifier
\* was extracted and skipped while another identifier was installed.
C5_Witness ==
    /\ resolved = "true"
    /\ installLog # <<>>
    /\ \E i \in 1..Len(missing_modules) :
          IsLocal(missing_modules[i]) /\ IsSecondary(missing_modules[i])

\* C6 (as stated): in one resolver call every identifier is installed at most once.
C6_AtMostOneInstallPerIdentifier ==
    \A m \in Ids \cup {"PyQt5"} : Count(LogModules, m) <= 1

\* C6 (amended): in one resolver call an identifier is installed at most as
\* many times as the classifier extracted it from the diagnostic text.
C6_AtMostOneInstallPerMatch ==
    \A m \in Ids \cup {"PyQt5"} : Count(LogModules, m) <= Count(missing_modules, m)

\* C6 witness: an identifier matched twice was installed twice.
C6_Witness ==
    /\ resolved = "true"
    /\ \E m \in Ids : Count(missing_modules, m) = 2 /\ Count(LogModules, m) = 2

\* C7: in one resolver call no secondary-tier identifier is installed before a
\* primary-tier one, and once a secondary-tier install has started every
\* non-local primary-tier identifier that was extracted has been installed.
C7_SecondaryAfterPrimary ==
    /\ \A i, j \in 1..Len(installLog) :
          (i < j /\ IsSecondary(installLog[i].module)) => IsSecondary(installLog[j].module)
    /\ (\E i \in 1..Len(installLog) : IsSecondary(installLog[i].module)) =>
          \A k \in 1..Len(missing_modules) :
             (~IsSecondary(missing_modules[k]) /\ ~IsLocal(missing_modules[k])) =>
                Count(LogModules, missing_modules[k]) = Count(missing_modules, missing_modules[k])

\* C7 witness: the secondary identifier was extracted first and installed last.
C7_Witness ==
    /\ Len(missing_modules) >= 2
    /\ IsSecondary(missing_modules[1])
    /\ ~IsSecondary(missing_modules[2])
    /\ Len(installLog) = 2
    /\ ~IsSecondary(installLog[1].module)
    /\ IsSecondary(installLog[2].module)

\* C8: the installer receives the mapped package name for an identifier whose
\* lower-cased form is a key of MODULE_PACKAGE_MAP, and the identifier itself
\* otherwise.
C8_MappedNameInstalled ==
    \A i \in 1..Len(installLog) :
        LET m == installLog[i].module
            p == installLog[i].package
        IN  /\ Lower(m) \in DOMAIN MODULE_PACKAGE_MAP => p = MODULE_PACKAGE_MAP[Lower(m)]
            /\ Lower(m) \notin DOMAIN MODULE_PACKAGE_MAP => p = m

\* C8 witness: an upper-case mapped identifier was installed under its mapped
\* name and an unmapped identifier under its own name.
C8_Witness ==
    /\ \E i \in 1..Len(installLog) :
          installLog[i].module = "PIL" /\ installLog[i].package = "Pillow"
    /\ \E i \in 1..Len(installLog) :
          installLog[i].module = "requests" /\ installLog[i].package = "requests"

\* C9: once the classifier has returned an empty list for a failing run, the
\* loop is in Unresolved with nothing installed, and from then on no target
\* launch, no installation, no delay and no further attempt happens.
C9_EmptyClassificationEndsRun ==
    /\ [](EmptyClassified => (outcome = "Unresolved" /\ wpc = "done" /\ installLog = <<>>))
    /\ [][EmptyClassified =>
            (executions' = executions /\ delays' = delays
               /\ installLog' = installLog /\ attempt' = attempt)]_vars

\* C9 witness: the first attempt failed with an unrecognised text and the
\* process has ended after that single attempt.
C9_Witness ==
    /\ EmptyClassified
    /\ attempt = 1
    /\ delays = 0
    /\ outcome = "Unresolved"
    /\ mainPc = "exited"

\* C10: if some process of the target program exited with status 0, the loop
\* is in Succeeded.
C10_ZeroExitMeansSucceeded == sawZero => outcome = "Succeeded"

\* C11: once a pip install of the resolver has exited with a non-zero status
\* the loop is over with InstallFailed, the resolver has not returned true, and
\* no installation, delay or launch of the target follows.
C11_InstallFailureEndsRun ==
    /\ [](pipFailed => (wpc = "done" /\ outcome = "InstallFailed" /\ resolved # "true"))
    /\ [][pipFailed =>
            (installLog' = installLog /\ delays' = delays /\ launches' = launches
               /\ executions' = executions /\ resolved' = resolved)]_vars

\* C11 witness: the first of two installable identifiers failed to install and
\* the second was never installed.
C11_Witness ==
    /\ pipFailed
    /\ Len(missing_modules) = 2
    /\ \A i \in 1..2 : ~IsLocal(missing_modules[i])
    /\ Len(installLog) = 1
    /\ mainPc = "exited"

\* A step in which main runs a pip command or creates the environment.
MainMutates ==
    \/ venvExists' # venvExists
    \/ mainPc \in {"recreateDeps", "op", "reqsApp"} /\ mainPc' # mainPc

\* A step in which the resolver calls install_single_dependency.
ResolverInstalls == Len(installLog') > Len(installLog)

\* C12: every step that creates the environment or installs, uninstalls or
\* upgrades packages, the resolver's installs included, is taken while
\* venv_lock is held.
C12_MutationsUnderLock == [][(MainMutates \/ ResolverInstalls) => venv_lock]_vars

\* C13: after KeyboardInterrupt has been delivered during the retry loop, the
\* target is not launched again and no further installation is started.
C13_InterruptStopsLoop ==
    [][mainPc = "interrupted" =>
         (launches' = launches /\ Len(installLog') <= Len(installLog))]_vars

\* C14: a run that ends in Exhausted has executed the target exactly
\* max_attempts times and has gone through exactly max_attempts - 1 install
\* cycles.
C14_ExhaustedCounts ==
    outcome = "Exhausted" => (executions = max_attempts /\ delays = max_attempts - 1)

\* C15: a run that has succeeded at attempt k has taken exactly k - 1 delays;
\* every delay follows a resolver call that returned true, comes after that
\* call's installs (exactly one install, of the mapped package, when a single
\* installable identifier was extracted) and is followed by the next attempt
\* with nothing installed in between.
C15_DelaysBetweenAttempts ==
    /\ [](outcome = "Succeeded" => delays = attempt - 1)
    /\ [](wpc = "sleeping" => resolved = "true")
    /\ [](wpc \in {"loop", "running"} => installLog = <<>>)
    /\ []((wpc = "sleeping" /\ Len(missing_modules) = 1 /\ ~IsLocal(missing_modules[1])) =>
             LET m == missing_modules[1]
             IN  installLog = <<[module |-> m,
                                 package |-> IF Lower(m) \in DOMAIN MODULE_PACKAGE_MAP
                                             THEN MODULE_PACKAGE_MAP[Lower(m)] ELSE m]>>)
    /\ [][(wpc = "sleeping" /\ wpc' # "sleeping" /\ outcome' # "Interrupted") =>
             (wpc' = "loop" /\ attempt' = attempt + 1 /\ delays' = delays)]_vars

\* C15 witness: failure on attempt 1, success on attempt 2, one delay.
C15_Witness ==
    /\ outcome = "Succeeded"
    /\ attempt = 2
    /\ delays = 1
    /\ executions = 3

\* C16: a run that succeeded on attempt 1 launched the target exactly once,
\* never called the resolver, installed nothing and took no delay.
C16_FirstAttemptSuccess ==
    (outcome = "Succeeded" /\ attempt = 1) =>
        /\ executions = 1
        /\ launches = 1
        /\ delays = 0
        /\ installLog = <<>>
        /\ resolved = "none"
        /\ returncode = -1

\* C16 witness: success on attempt 1 and the process has exited with status 0.
C16_Witness ==
    /\ outcome = "Succeeded"
    /\ attempt = 1
    /\ mainPc = "exited"
    /\ exitCode = 0

\* C17: when the target could not be started, the run ends without another
\* attempt to launch it and without any installation.
C17_LaunchFailureIsFatal ==
    [][(wpc = "failed" /\ ~pythonOK) =>
         (launches' = launches /\ installLog' = installLog)]_vars

\* C19: a failure of attempt max_attempts is followed by no resolver call, no
\* launch, no installation and no delay; the loop ends in Exhausted.
C19_LastFailureGoesToExhausted ==
    /\ [][(wpc = "failed" /\ attempt = max_attempts /\ outcome' # "Interrupted") =>
            (wpc' \in {"failed", "loop"} /\ launches' = launches /\ delays' = delays
               /\ installLog' = installLog /\ resolved' = resolved
               /\ returncode' = returncode)]_vars
    /\ [](attempt > max_attempts =>
            (wpc \in {"loop", "done"} /\ installLog = <<>> /\ resolved = "none"))
    /\ [](outcome = "Exhausted" => (attempt = max_attempts + 1 /\ delays = max_attempts - 1))

\* C19 witness: the loop is exhausted after 2 * max_attempts - 1 launches.
C19_Witness == outcome = "Exhausted" /\ launches = 2 * max_attempts - 1

\* Number of fragments of kind k among the first i fragments of t.
KindCount(t, k, i) == Cardinality({j \in 1..i : t[j].kind = k})

\* C20: the classifier's result is the "No module named" captures in text
\* order, then the "cannot import name" captures in text order, then PyQt5
\* exactly when the Qt signature occurs; duplicates and letter case are kept.
C20_ClassifierResult ==
    returncode = 1 =>
        LET t == error_message
            r == missing_modules
            n1 == KindCount(t, "nomod", Len(t))
            n2 == KindCount(t, "noname", Len(t))
            q == IF \E j \in 1..Len(t) : t[j].kind = "qtsig" THEN 1 ELSE 0
        IN  /\ Len(r) = n1 + n2 + q
            /\ \A i \in 1..Len(t) :
                  /\ t[i].kind = "nomod" => r[KindCount(t, "nomod", i)] = t[i].id
                  /\ t[i].kind = "noname" => r[n1 + KindCount(t, "noname", i)] = t[i].id
            /\ q = 1 => r[Len(r)] = "PyQt5"

\* C20 witness: a "cannot import name" match that precedes a "No module named"
\* match in the text comes after it in the result, letter case kept.
C20_Witness ==
    /\ returncode = 1
    /\ Len(error_message) = 2
    /\ error_message[1] = [kind |-> "noname", id |-> "PIL"]
    /\ error_message[2] = [kind |-> "nomod", id |-> "QtAwesome"]
    /\ missing_modules = <<"QtAwesome", "PIL">>

\* The identifiers of one tier that the resolver's log holds, in log order.
TierLog(sec) == SelectSeq(LogModules, LAMBDA m : IsSecondary(m) = sec)

\* The identifiers of one tier that are not local, in extraction order.
TierWanted(sec) ==
    SelectSeq(missing_modules, LAMBDA m : IsSecondary(m) = sec /\ ~IsLocal(m))

\* C21: within one resolver call the installs of each tier are started one at
\* a time, never while another install is running, and in extraction order:
\* the installs of a tier are a prefix of that tier's non-local identifiers in
\* the order the classifier extracted them.
C21_TierInstallsInExtractionOrder ==
    /\ [](\A sec \in BOOLEAN :
            /\ Len(TierLog(sec)) <= Len(TierWanted(sec))
            /\ \A i \in 1..Len(TierLog(sec)) : TierLog(sec)[i] = TierWanted(sec)[i])
    /\ [][ResolverInstalls =>
            (wpc # "installing" /\ Len(installLog') = Len(installLog) + 1)]_vars

\* C21 witness: two different primary identifiers were extracted and both
\* have been installed, the one extracted first before the other.
C21_Witness ==
    /\ Len(missing_modules) = 2
    /\ missing_modules[1] # missing_modules[2]
    /\ ~IsSecondary(missing_modules[1])
    /\ ~IsSecondary(missing_modules[2])
    /\ LogModules = missing_modules
    /\ wpc = "sleeping"

\* The outcomes of the retry loop that the claim calls absorbing.
Absorbing == {"Succeeded", "Exhausted", "Unresolved"}

\* C22: once the retry loop has reached Succeeded, Exhausted or Unresolved the
\* worker thread is over and stays over, main is past the start of the thread
\* and only waits for it or exits, and no step launches the target, installs
\* anything, takes a delay or changes the outcome.
C22_TerminalOutcomesAbsorbing ==
    /\ [](outcome \in Absorbing =>
            (wpc = "done" /\ mainPc \in {"joining", "interrupted", "exited"}))
    /\ [][(outcome \in Absorbing) =>
            (outcome' = outcome /\ wpc' = "done" /\ attempt' = attempt
               /\ launches' = launches /\ executions' = executions
               /\ delays' = delays /\ installLog' = installLog
               /\ mainPc' \in {mainPc, "exited"})]_vars

\* C22 witness: the loop ran out of attempts, main joined the worker thread
\* and the process has exited.
C22_Witness ==
    /\ outcome = "Exhausted"
    /\ wpc = "done"
    /\ mainPc = "exited"
    /\ attempt = max_attempts + 1

\* The worker thread has been started and is not over.
WorkerBusy == wpc \notin {"idle", "done"}

\* C23: operations on the environment never overlap. While the worker thread
\* is alive main only waits for it, every step in which main creates the
\* environment or runs pip is taken before the worker thread is started, and
\* the target is launched only when the worker is between two operations
\* (no execution, install or delay of its own is in flight).
C23_OneOperationInFlight ==
    /\ [](WorkerBusy => mainPc \in {"joining", "interrupted"})
    /\ [][MainMutates => (wpc = "idle" /\ wpc' = "idle")]_vars
    /\ [][launches' # launches => wpc \in {"loop", "failed"}]_vars

\* C23 witness: an install of the resolver is running in the worker thread
\* while main, past its own environment operations, waits in join.
C23_Witness ==
    /\ wpc = "installing"
    /\ mainPc = "joining"
    /\ ensured
    /\ installLog # <<>>

\* A step in which main runs a pip command (install, uninstall or upgrade).
MainRunsPip == mainPc \in {"recreateDeps", "op", "reqsApp"} /\ mainPc' # mainPc

\* C24: no pip command of main, no launch of the target and no install of the
\* resolver starts before a call of ensure_venv has completed in this
\* invocation, and from that call on the environment exists.
C24_EnsuredBeforeOperations ==
    /\ [][(MainRunsPip \/ launches' # launches \/ ResolverInstalls) =>
            (ensured /\ venvExists)]_vars
    /\ []((mainPc \in {"recreateDeps", "op", "reqsApp", "spawn"} \/ WorkerBusy) => ensured)
    /\ [](ensured => venvExists)

\* C24 witness: the uninstall command has run its pip command, after
\* ensure_venv had completed, on an environment that exists.
C24_Witness ==
    /\ args.mode = "unpip"
    /\ mainPc = "unlock"
    /\ ensured
    /\ venvExists

\* The delete or the uninstall command was given together with a target path.
DeleteOrUnpipWithApp == args.mode \in {"delete", "unpip"} /\ args.hasApp

\* C25 as stated: with delete or unpip and a target path the retry loop is
\* never started and the target never executed; with delete nothing is
\* created or installed and the process exits with status 0.
C25_NoLoopAndDeleteExitsZero ==
    DeleteOrUnpipWithApp =>
        /\ wpc = "idle"
        /\ launches = 0
        /\ executions = 0
        /\ installLog = <<>>
        /\ args.mode = "delete" =>
              /\ ~ensured
              /\ mainPc \in {"start", "locked", "exited"}
              /\ mainPc = "exited" => exitCode = 0

\* C25 amended: with delete or unpip and a target path the retry loop is
\* never started and the target never executed; with delete nothing is
\* created or installed, and the process exits with status 0 when the
\* deletion step has run and left no environment, and with status 1 when the
\* pipx check or the deletion itself fails.
C25_NoLoopAndDeleteStatus ==
    /\ [](DeleteOrUnpipWithApp =>
            /\ wpc = "idle"
            /\ launches = 0
            /\ executions = 0
            /\ installLog = <<>>
            /\ mainPc \notin {"ensureApp", "reqsApp", "spawn", "joining", "interrupted"}
            /\ args.mode = "delete" =>
                  (~ensured /\ mainPc \in {"start", "locked", "exited"}))
    /\ [][(DeleteOrUnpipWithApp /\ args.mode = "delete") =>
            /\ ~(~venvExists /\ venvExists')
            /\ (mainPc # "exited" /\ mainPc' = "exited") =>
                  exitCode' = (IF mainPc = "locked" /\ ~venvExists' THEN 0 ELSE 1)]_vars

\* C25 witness: delete was given with a target path; the environment that
\* existed is gone, nothing ran and the process has exited with status 0.
C25_Witness ==
    /\ args.mode = "delete"
    /\ args.hasApp
    /\ mainPc = "exited"
    /\ exitCode = 0
    /\ ~venvExists
    /\ wpc = "idle"
    /\ launches = 0

====
